---------------------------- MODULE Spec2Model ----------------------------
(*
  CatGPT (src/src/index.js): a Telegram bot relaying each text message to an
  Ollama chat endpoint, with a per-user conversation context kept in the
  process-wide Map `userContexts`.

  The model keeps JavaScript's reference semantics: the Map holds references
  to array objects of a heap, and the local `context` of generateResponse is
  such a reference too, so `context.push` may change the stored array in
  place and `context.slice(-10)` makes a fresh array.  Handlers interleave
  only at their awaits (single-threaded event loop): each action below is
  the code between two awaits.

  Texts are sequences of runs [ch, n] (n copies of character ch), adjacent
  runs holding different characters: two texts are equal iff their run
  sequences are equal, and a 9000-unit text stays small.
*)
EXTENDS Integers, Sequences, FiniteSets, TLC

\* ------------------------------------------------------------ bounds
\* inbound updates (text messages and /clear commands) accepted under Spec
MaxUpdates == 2
\* inbound updates accepted under SpecPair (one user, two handlers that may
\* overlap)
MaxPairUpdates == 3
\* inbound updates accepted under SpecFair (as SpecPair, with fairness)
MaxFairUpdates == 2
\* inbound updates accepted under SpecSeq (one user, one handler at a time,
\* every message and reply a different text)
MaxSeqUpdates == 7
\* inbound updates accepted under SpecOne (one user, one handler at a time,
\* every kind of failure and replies of every size)
MaxOneUpdates == 1

\* ------------------------------------------------- program constants
\* index.js:49-50  if (context.length > 10) context = context.slice(-10)
MaxContext == 10
\* index.js:94-95  response.length > 4000, /.{1,4000}/gs
ChunkLimit == 4000

Users == {"u1", "u2"}
\* the handlers that may run at the same time
Tasks == {1, 2}
NoArr == 0
ArrIds == 1..(Cardinality(Users) + Cardinality(Tasks))

\* -------------------------------------------------------------- texts
Run(c, k) == [ch |-> c, n |-> k]

\* String.prototype.length
RECURSIVE Length(_)
Length(t) == IF t = <<>> THEN 0 ELSE Head(t).n + Length(Tail(t))

\* the first k units of t
RECURSIVE Take(_, _)
Take(t, k) ==
  IF k <= 0 \/ t = <<>> THEN <<>>
  ELSE IF Head(t).n <= k THEN <<Head(t)>> \o Take(Tail(t), k - Head(t).n)
  ELSE <<Run(Head(t).ch, k)>>

\* t without its first k units
RECURSIVE Drop(_, _)
Drop(t, k) ==
  IF k <= 0 \/ t = <<>> THEN t
  ELSE IF Head(t).n <= k THEN Drop(Tail(t), k - Head(t).n)
  ELSE <<Run(Head(t).ch, Head(t).n - k)>> \o Tail(t)

\* string concatenation: the runs meeting at the seam merge
Concat(a, b) ==
  IF a = <<>> THEN b
  ELSE IF b = <<>> THEN a
  ELSE IF a[Len(a)].ch = b[1].ch
       THEN SubSeq(a, 1, Len(a) - 1)
            \o <<Run(b[1].ch, a[Len(a)].n + b[1].n)>> \o Tail(b)
       ELSE a \o b

RECURSIVE ConcatAll(_)
ConcatAll(ts) == IF ts = <<>> THEN <<>> ELSE Concat(Head(ts), ConcatAll(Tail(ts)))

\* a variant of MatchChunks that keeps only full-size matches: /.{4000}/gs
RECURSIVE MatchFullChunks(_)
MatchFullChunks(t) ==
  IF Length(t) < ChunkLimit THEN <<>>
  ELSE <<Take(t, ChunkLimit)>> \o MatchFullChunks(Drop(t, ChunkLimit))

\* response.match(/.{1,4000}/gs): greedy, dot matches every unit (flag s),
\* successive matches start where the previous one ended (flag g)
RECURSIVE MatchChunks(_)
MatchChunks(t) ==
  IF Length(t) = 0 THEN <<>>
  ELSE <<Take(t, ChunkLimit)>> \o MatchChunks(Drop(t, ChunkLimit))

\* index.js:94-101: the messages the handler sends for response r, in order
SplitResponse(r) == IF Length(r) > ChunkLimit THEN MatchChunks(r) ELSE <<r>>

\* ---------------------------------------------------------- the inputs
Hello == <<Run("h", 5)>>
UserText(u, t) == <<Run(IF u = "u1" THEN "p" ELSE "q", t)>>
HiThere == <<Run("r", 8)>>
\* the n-th message of a sequential run: n units of "m", so all differ
SeqText(n) == <<Run("m", n)>>
SeqReply(n) == <<Run("r", n)>>
\* a text of x units of "a" followed by y units of "b"
MkText(x, y) ==
  (IF x > 0 THEN <<Run("a", x)>> ELSE <<>>) \o (IF y > 0 THEN <<Run("b", y)>> ELSE <<>>)
ReplyTexts ==
  {MkText(x, y) : x \in {0, 1, 3999, 4000, 4001, 4500, 8000},
                  y \in {0, 1, 4000, 4500, 8001}}

\* error objects as the handler inspects them: name, cause?.code, message
Err(nm, cc, msg) == [name |-> nm, cause |-> cc, message |-> msg]
RefusedErr == Err("TypeError", "ECONNREFUSED", <<"fetch failed">>)
TimeoutErr == Err("TimeoutError", "none", <<"The operation was aborted due to timeout">>)
ResetErr == Err("TypeError", "ECONNRESET", <<"fetch failed">>)
BodyErr == Err("SyntaxError", "none", <<"Unexpected end of JSON input">>)
SendErr == Err("TelegramError", "none", <<"400: Bad Request">>)
NoErr == Err("none", "none", <<>>)
\* index.js:65  new Error(`Ollama error: ${response.status}`)
StatusErr(s) == Err("Error", "none", <<"Ollama error: ", s>>)

\* outbound messages
TextMsg(x) == [kind |-> "text", text |-> x, err |-> <<>>]
GenericMsg == [kind |-> "generic", text |-> <<>>, err |-> <<>>]
NoMsg == [kind |-> "none", text |-> <<>>, err |-> <<>>]
\* index.js:111-114
ApologyMsg(errorMsg) == [kind |-> "apology", text |-> <<>>, err |-> errorMsg]

UnavailableText == <<"Ollama service is not available. Please try again later.">>
TooLongText == <<"Response took too long. Please try a shorter message.">>

\* a variant of ErrorMsg that reads error.code instead of error.cause?.code
ErrorMsgNoCause(error) ==
  IF error.name = "TimeoutError" THEN TooLongText ELSE error.message

\* index.js:104-110: both ifs run, the second overrides the first
ErrorMsg(error) ==
  LET m0 == error.message
      m1 == IF error.cause = "ECONNREFUSED" THEN UnavailableText ELSE m0
  IN IF error.name = "TimeoutError" THEN TooLongText ELSE m1

Turn(r, c) == [role |-> r, content |-> c]

\* a variant of LastN that keeps the first k: slice(0, k)
FirstN(s, k) == IF Len(s) <= k THEN s ELSE SubSeq(s, 1, k)

\* Array.prototype.slice(-k)
LastN(s, k) == IF Len(s) <= k THEN s ELSE SubSeq(s, Len(s) - k + 1, Len(s))

VARIABLES
  userContexts,  \* the Map: user -> reference to its array (NoArr: no entry)
  heap,          \* array objects: id -> sequence of turns
  task,          \* the text handlers: one record per running handler; its
                 \* field base is the user's stored history when the
                 \* message arrived, requests the fetch calls made for it
  confirmations, \* per user, the /clear confirmations sent
  nUpdates,      \* inbound updates accepted so far
  appended       \* per user, every turn pushed since the last /clear

vars == <<userContexts, heap, task, confirmations, nUpdates,
          appended>>

IdleTask ==
  [pc |-> "idle", userId |-> "u1", userMessage |-> <<>>, context |-> NoArr,
   request |-> <<>>, response |-> <<>>, queue |-> <<>>, inflight |-> NoMsg,
   out |-> <<>>, error |-> NoErr, got |-> "none", armed |-> 0,
   disarmed |-> 0, interval |-> FALSE, ticked |-> FALSE, requests |-> 0,
   base |-> <<>>]

Init ==
  /\ userContexts = [u \in Users |-> NoArr]
  /\ heap = [a \in ArrIds |-> <<>>]
  /\ task = [t \in Tasks |-> IdleTask]
  /\ confirmations = [u \in Users |-> 0]
  /\ nUpdates = 0
  /\ appended = [u \in Users |-> <<>>]

\* ------------------------------------------------------------ the heap
Refs(uc, tk) == ({uc[u] : u \in Users} \cup {tk[t].context : t \in Tasks}) \ {NoArr}

\* a new array object: the least id nothing refers to
FreeId(refs) ==
  CHOOSE a \in ArrIds : a \notin refs /\ \A b \in ArrIds : b \notin refs => a <= b

\* garbage collection: an array nothing refers to is gone
Collect(h, uc, tk) == [a \in ArrIds |-> IF a \in Refs(uc, tk) THEN h[a] ELSE <<>>]

\* the user's stored history, as userContexts.get(userId) || [] reads it
Stored(u) == IF userContexts[u] = NoArr THEN <<>> ELSE heap[userContexts[u]]

\* a variant of MapKey in which every user shares one entry
MapKeyShared(u) == "u1"

\* index.js:36, 43, 73: the Map is keyed by ctx.from.id
MapKey(u) == u

\* a variant of MapDelete that leaves the entry in place
MapDeleteNothing(uc, u) == uc

\* a variant of MapDelete that empties the whole Map: userContexts.clear()
MapDeleteAll(uc, u) == [v \in Users |-> NoArr]

\* index.js:36  userContexts.delete(ctx.from.id)
MapDelete(uc, u) == [uc EXCEPT ![MapKey(u)] = NoArr]

\* index.js:73  userContexts.set(userId, context)
MapSet(uc, u, a) == [uc EXCEPT ![MapKey(u)] = a]

\* --------------------------------------------------------- the handlers
\* index.js:78-83: a text update arrives; the handler awaits the first
\* sendChatAction('typing')
Receive(t, u, m, limit) ==
  /\ task[t].pc \in {"idle", "done"}
  /\ \A t2 \in Tasks : task[t2].pc \in {"idle", "done"} => t <= t2
  /\ nUpdates < limit
  /\ task' = [task EXCEPT ![t] =
       [IdleTask EXCEPT !.pc = "typing", !.userId = u, !.userMessage = m,
                        !.base = Stored(u)]]
  /\ nUpdates' = nUpdates + 1
  /\ UNCHANGED <<userContexts, heap, confirmations, appended>>

\* index.js:83-91, 43-62: the first typing signal was sent; setInterval,
\* then generateResponse up to its await of fetch
TypingFirstOk(t) ==
  /\ task[t].pc = "typing"
  /\ LET u == task[t].userId
         turn == Turn("user", task[t].userMessage)
         stored == userContexts[MapKey(u)]
         a == IF stored = NoArr THEN FreeId(Refs(userContexts, task)) ELSE stored
         h1 == [heap EXCEPT ![a] = Append(@, turn)]
         over == Len(h1[a]) > MaxContext
         b == IF over THEN FreeId(Refs(userContexts, task) \cup {a}) ELSE a
         h2 == IF over THEN [h1 EXCEPT ![b] = LastN(h1[a], MaxContext)] ELSE h1
     IN /\ task' = [task EXCEPT ![t] =
             [@ EXCEPT !.pc = "fetch", !.context = b, !.request = h2[b],
                       !.armed = @ + 1, !.interval = TRUE,
                       !.requests = @ + 1]]
        /\ heap' = Collect(h2, userContexts, task')
        /\ appended' = [appended EXCEPT ![u] = Append(@, turn)]
  /\ UNCHANGED <<userContexts, confirmations, nUpdates>>

\* a variant of BotCatch that only logs the error
BotCatchLogOnly(rec) == [rec EXCEPT !.pc = "done", !.base = <<>>]

\* index.js:121-124: bot.catch sends the generic apology, not awaited
BotCatch(rec) ==
  [rec EXCEPT !.pc = "caught", !.inflight = GenericMsg, !.base = <<>>]

\* index.js:83: the first sendChatAction rejects before the try block: no
\* timer is set, no request is made, the error goes to bot.catch
TypingFirstFail(t) ==
  /\ task[t].pc = "typing"
  /\ task' = [task EXCEPT ![t] = BotCatch([@ EXCEPT !.error = SendErr])]
  /\ UNCHANGED <<userContexts, heap, confirmations, nUpdates, appended>>

\* index.js:86-88: the interval fires; the send's failure is swallowed
TypingTick(t) ==
  /\ task[t].interval
  /\ ~task[t].ticked
  /\ task' = [task EXCEPT ![t].ticked = TRUE]
  /\ UNCHANGED <<userContexts, heap, confirmations, nUpdates, appended>>

\* a variant of Catch that sends a failed reply message again
CatchRetry(rec, e) ==
  IF rec.inflight.kind = "text"
  THEN rec
  ELSE [rec EXCEPT !.pc = "apology", !.error = e, !.context = NoArr,
                   !.queue = <<>>, !.inflight = ApologyMsg(ErrorMsg(e))]

\* a variant of Catch as if the try block were inside the for-of loop: a
\* chunk that was not delivered is skipped and the next one sent
CatchSkipChunk(rec, e) ==
  IF rec.inflight.kind = "text" /\ rec.queue # <<>>
  THEN [rec EXCEPT !.inflight = TextMsg(Head(rec.queue)),
                   !.queue = Tail(rec.queue)]
  ELSE [rec EXCEPT !.pc = "apology", !.error = e, !.context = NoArr,
                   !.queue = <<>>, !.inflight = ApologyMsg(ErrorMsg(e))]

\* a variant of Catch that calls the endpoint again when the inference call
\* failed
CatchRefetch(rec, e) ==
  IF rec.inflight.kind = "none"
  THEN [rec EXCEPT !.pc = "fetch", !.error = e]
  ELSE [rec EXCEPT !.pc = "apology", !.error = e, !.context = NoArr,
                   !.queue = <<>>, !.inflight = ApologyMsg(ErrorMsg(e))]

\* index.js:102-114: the catch block, up to its await of ctx.reply
Catch(rec, e) ==
  [rec EXCEPT !.pc = "apology", !.error = e, !.context = NoArr,
              !.queue = <<>>, !.inflight = ApologyMsg(ErrorMsg(e))]

\* index.js:53-62: fetch rejects (connection refused, timeout, reset)
FetchReject(t, e) ==
  /\ task[t].pc = "fetch"
  /\ task' = [task EXCEPT ![t] = Catch([@ EXCEPT !.got = "failed"], e)]
  /\ heap' = Collect(heap, userContexts, task')
  /\ UNCHANGED <<userContexts, confirmations, nUpdates, appended>>

\* index.js:64-66: a response whose status is not 2xx
FetchStatus(t, s) ==
  /\ task[t].pc = "fetch"
  /\ task' = [task EXCEPT ![t] = Catch([@ EXCEPT !.got = "failed"], StatusErr(s))]
  /\ heap' = Collect(heap, userContexts, task')
  /\ UNCHANGED <<userContexts, confirmations, nUpdates, appended>>

\* index.js:64, 68: a 2xx response; the handler awaits response.json()
FetchOk(t) ==
  /\ task[t].pc = "fetch"
  /\ task' = [task EXCEPT ![t].pc = "json"]
  /\ UNCHANGED <<userContexts, heap, confirmations, nUpdates, appended>>

\* index.js:68: reading or parsing the body fails
JsonFail(t, e) ==
  /\ task[t].pc = "json"
  /\ task' = [task EXCEPT ![t] = Catch([@ EXCEPT !.got = "failed"], e)]
  /\ heap' = Collect(heap, userContexts, task')
  /\ UNCHANGED <<userContexts, confirmations, nUpdates, appended>>

\* index.js:68-75, 91-101: the body arrives; the assistant turn is pushed,
\* the Map entry set, and the first reply message sent
JsonOk(t, r) ==
  /\ task[t].pc = "json"
  /\ LET u == task[t].userId
         c == task[t].context
         turn == Turn("assistant", r)
         h1 == [heap EXCEPT ![c] = Append(@, turn)]
         chunks == SplitResponse(r)
     IN /\ userContexts' = MapSet(userContexts, u, c)
        /\ task' = [task EXCEPT ![t] =
             [@ EXCEPT !.pc = "reply", !.got = "ok", !.response = r,
                       !.context = NoArr, !.inflight = TextMsg(Head(chunks)),
                       !.queue = Tail(chunks)]]
        /\ heap' = Collect(h1, userContexts', task')
        /\ appended' = [appended EXCEPT ![u] = Append(@, turn)]
  /\ UNCHANGED <<confirmations, nUpdates>>

Sent(rec, ok) == Append(rec.out, [msg |-> rec.inflight, ok |-> ok])

\* a variant of Finally without the clearInterval call
FinallyNothing(rec) ==
  [rec EXCEPT !.request = <<>>, !.userMessage = <<>>, !.base = <<>>]

\* index.js:115-117: the finally block, clearInterval(typingInterval); the
\* handler's locals end with it
Finally(rec) ==
  [rec EXCEPT !.disarmed = @ + 1, !.interval = FALSE, !.ticked = FALSE,
              !.request = <<>>, !.userMessage = <<>>, !.base = <<>>]

\* index.js:96-100: a reply message was delivered; the next chunk is sent,
\* or the handler ends through finally
ReplyOk(t) ==
  /\ task[t].pc = "reply"
  /\ IF task[t].queue # <<>>
     THEN task' = [task EXCEPT ![t] =
            [@ EXCEPT !.out = Sent(task[t], TRUE),
                      !.inflight = TextMsg(Head(task[t].queue)),
                      !.queue = Tail(task[t].queue)]]
     ELSE task' = [task EXCEPT ![t] =
            Finally([@ EXCEPT !.out = Sent(task[t], TRUE), !.pc = "done",
                              !.inflight = NoMsg])]
  /\ UNCHANGED <<userContexts, heap, confirmations, nUpdates, appended>>

\* index.js:97, 100, 102: a reply send rejects; the catch block runs
ReplyFail(t) ==
  /\ task[t].pc = "reply"
  /\ task' = [task EXCEPT ![t] = Catch([@ EXCEPT !.out = Sent(task[t], FALSE)], SendErr)]
  /\ UNCHANGED <<userContexts, heap, confirmations, nUpdates, appended>>

\* index.js:111-117: the apology was delivered; finally
ApologyOk(t) ==
  /\ task[t].pc = "apology"
  /\ task' = [task EXCEPT ![t] =
       Finally([@ EXCEPT !.out = Sent(task[t], TRUE), !.pc = "done",
                         !.inflight = NoMsg])]
  /\ UNCHANGED <<userContexts, heap, confirmations, nUpdates, appended>>

\* a variant of ApologyFail that sends the apology again
ApologyFailRetry(t) ==
  /\ task[t].pc = "apology"
  /\ task' = [task EXCEPT ![t].out = Sent(task[t], FALSE)]
  /\ UNCHANGED <<userContexts, heap, confirmations, nUpdates, appended>>

\* index.js:111-117, 121-124: the apology send rejects inside the catch
\* block; finally runs, then the error reaches bot.catch
ApologyFail(t) ==
  /\ task[t].pc = "apology"
  /\ task' = [task EXCEPT ![t] =
       BotCatch(Finally([@ EXCEPT !.out = Sent(task[t], FALSE)]))]
  /\ UNCHANGED <<userContexts, heap, confirmations, nUpdates, appended>>

\* index.js:123: the generic apology completes; .catch(() => { }) swallows
\* its failure
GenericDone(t, ok) ==
  /\ task[t].pc = "caught"
  /\ task' = [task EXCEPT ![t] =
       [@ EXCEPT !.out = Sent(task[t], ok), !.pc = "done", !.inflight = NoMsg]]
  /\ UNCHANGED <<userContexts, heap, confirmations, nUpdates, appended>>

\* index.js:35-38: /clear deletes the entry and sends the confirmation; the
\* send is not awaited and no code runs when it completes
Clear(u, limit) ==
  /\ nUpdates < limit
  /\ userContexts' = MapDelete(userContexts, u)
  /\ heap' = Collect(heap, userContexts', task)
  /\ confirmations' = [confirmations EXCEPT ![u] = @ + 1]
  /\ nUpdates' = nUpdates + 1
  /\ appended' = [appended EXCEPT ![u] = <<>>]
  /\ UNCHANGED task

\* the steps of handler t after its update was received
Handle(t, replies, fetchErrors, statuses, jsonErrors) ==
  \/ TypingFirstOk(t)
  \/ TypingFirstFail(t)
  \/ TypingTick(t)
  \/ \E e \in fetchErrors : FetchReject(t, e)
  \/ \E s \in statuses : FetchStatus(t, s)
  \/ FetchOk(t)
  \/ \E e \in jsonErrors : JsonFail(t, e)
  \/ \E r \in replies : JsonOk(t, r)
  \/ ReplyOk(t)
  \/ ReplyFail(t)
  \/ ApologyOk(t)
  \/ ApologyFail(t)
  \/ \E ok \in BOOLEAN : GenericDone(t, ok)

\* no handler is running
Quiet == \A t \in Tasks : task[t].pc \in {"idle", "done"}

\* two users, two handlers that may overlap; the texts of two messages
\* handled at the same time differ, and so do those of the two users
Next ==
  \/ \E t \in Tasks, u \in Users : Receive(t, u, UserText(u, t), MaxUpdates)
  \/ \E t \in Tasks : Handle(t, {HiThere}, {RefusedErr}, {"500"}, {BodyErr})
  \/ \E u \in Users : Clear(u, MaxUpdates)

Spec == Init /\ [][Next]_vars

\* one user, two handlers that may overlap
NextPair ==
  \/ \E t \in Tasks : Receive(t, "u1", UserText("u1", t), MaxPairUpdates)
  \/ \E t \in Tasks : Handle(t, {HiThere}, {RefusedErr}, {"500"}, {BodyErr})
  \/ Clear("u1", MaxPairUpdates)

SpecPair == Init /\ [][NextPair]_vars

\* one user, two handlers that may overlap, with weak fairness of each
\* handler's steps: the endpoint answers, refuses or times out, and every
\* send completes or fails
NextFair ==
  \/ \E t \in Tasks : Receive(t, "u1", UserText("u1", t), MaxFairUpdates)
  \/ \E t \in Tasks : Handle(t, {HiThere}, {RefusedErr}, {"500"}, {BodyErr})
  \/ Clear("u1", MaxFairUpdates)

SpecFair ==
  /\ Init /\ [][NextFair]_vars
  /\ \A t \in Tasks :
       WF_vars(Handle(t, {HiThere}, {RefusedErr}, {"500"}, {BodyErr}))

\* one user whose messages are handled one after the other, the n-th update
\* being the text SeqText(n) and answered by SeqReply(n)
NextSeq ==
  \/ Quiet /\ Receive(1, "u1", SeqText(nUpdates + 1), MaxSeqUpdates)
  \/ Handle(1, {SeqReply(nUpdates)}, {RefusedErr}, {"500"}, {BodyErr})
  \/ Quiet /\ Clear("u1", MaxSeqUpdates)

SpecSeq == Init /\ [][NextSeq]_vars

\* one user, one handler at a time, every kind of failure, replies of every
\* size around the chunk limit
NextOne ==
  \/ Quiet /\ Receive(1, "u1", Hello, MaxOneUpdates)
  \/ Handle(1, ReplyTexts, {RefusedErr, TimeoutErr, ResetErr}, {"404", "500"},
             {TimeoutErr, BodyErr})
  \/ Quiet /\ Clear("u1", MaxOneUpdates)

SpecOne == Init /\ [][NextOne]_vars

\* ------------------------------------------------------------ the claims

\* C1: in every reachable state every user's stored conversation history
\* holds at most MaxContext (10) turns.
C1_HistoryAtMostTen == \A u \in Users : Len(Stored(u)) <= MaxContext

\* s is made of whole exchanges only: a user turn, then its assistant turn
OnlyExchanges(s) ==
  /\ Len(s) % 2 = 0
  /\ \A i \in 1..Len(s) : s[i].role = (IF i % 2 = 1 THEN "user" ELSE "assistant")

\* C2: once one user's non-overlapping successful exchanges have appended
\* more than 10 turns, the stored history is exactly the 10 most recently
\* appended turns, in their original order.
C2_StoredIsLastTen ==
  (Quiet /\ OnlyExchanges(appended["u1"]) /\ Len(appended["u1"]) > MaxContext)
    => Stored("u1") = LastN(appended["u1"], MaxContext)

\* the handler of slot t has returned or thrown
Finished(t) == task[t].pc \in {"caught", "done"}

\* the messages of kind k that handler t has sent or is sending, in order
Attempts(t, k) ==
  LET all == [i \in 1..Len(task[t].out) |-> task[t].out[i].msg]
             \o (IF task[t].inflight.kind = "none" THEN <<>> ELSE <<task[t].inflight>>)
  IN SelectSeq(all, LAMBDA m : m.kind = k)

\* every send of handler t so far was delivered
AllDelivered(t) == \A i \in 1..Len(task[t].out) : task[t].out[i].ok

\* C3: for every text message whose inference call completed or failed, the
\* typing interval set for it is cleared exactly once, and once its handler
\* has finished the interval is inactive and emits no typing signal.
C3_DisarmedOnce ==
  \A t \in Tasks :
    /\ task[t].disarmed <= task[t].armed
    /\ task[t].interval => (task[t].armed = 1 /\ task[t].disarmed = 0)
    /\ (Finished(t) /\ task[t].got # "none")
         => (task[t].armed = 1 /\ task[t].disarmed = 1
             /\ ~task[t].interval /\ ~task[t].ticked)

\* a message whose inference call timed out and whose apology send failed
\* has been handled to its end
C3_Witness ==
  \E t \in Tasks :
    /\ task[t].pc = "done" /\ task[t].error = TimeoutErr /\ task[t].got = "failed"
    /\ task[t].disarmed = 1
    /\ \E i \in 1..Len(task[t].out) :
         task[t].out[i].msg.kind = "apology" /\ ~task[t].out[i].ok

\* the texts of a sequence of messages
Texts(ms) == [i \in 1..Len(ms) |-> ms[i].text]

\* C4: the chunks the handler sends for a reply concatenate to the reply, no
\* chunk is longer than ChunkLimit (4000) units, a reply of at most 4000
\* units is sent as one message, and a reply of 9000 units as three messages
\* of 4000, 4000 and 1000 units.
C4_ChunksRebuildReply ==
  \A t \in Tasks :
    LET sent == Texts(Attempts(t, "text"))
    IN /\ \A i \in 1..Len(sent) : Length(sent[i]) <= ChunkLimit
       /\ (task[t].pc = "done" /\ task[t].got = "ok" /\ AllDelivered(t))
            => /\ ConcatAll(sent) = task[t].response
               /\ Length(task[t].response) <= ChunkLimit => Len(sent) = 1
               /\ Length(task[t].response) = 9000
                    => [i \in 1..Len(sent) |-> Length(sent[i])] = <<4000, 4000, 1000>>

\* a 9000-unit reply was delivered in full
C4_Witness ==
  \E t \in Tasks :
    /\ task[t].pc = "done" /\ task[t].got = "ok" /\ AllDelivered(t)
    /\ task[t].response = MkText(4500, 4500)
    /\ Len(task[t].out) = 3

\* C5: the apology for a failed inference call carries the explanation of
\* its error: 'took too long' for a timeout, 'service is not available' for
\* a refused connection, the status code for a non-success status; and the
\* three explanations differ, so an apology names one kind only.
C5_ApologyExplainsError ==
  \A t \in Tasks :
    \A i \in 1..Len(Attempts(t, "apology")) :
      LET a == Attempts(t, "apology")[i]
          e == task[t].error
      IN task[t].got = "failed" =>
           /\ (e = TimeoutErr) <=> (a.err = TooLongText)
           /\ (e = RefusedErr) <=> (a.err = UnavailableText)
           /\ \A st \in {"404", "500"} :
                (e = StatusErr(st)) <=> (a.err = <<"Ollama error: ", st>>)

\* the apology for a refused connection was delivered
C5_Witness ==
  \E t \in Tasks :
    /\ task[t].got = "failed" /\ task[t].error = RefusedErr
    /\ task[t].out = <<[msg |-> ApologyMsg(UnavailableText), ok |-> TRUE]>>

\* the texts user u sends
TextsOf(u) == {UserText(u, t) : t \in Tasks}

\* every user turn of s is a text of user u
OwnTurns(s, u) ==
  \A i \in 1..Len(s) : s[i].role = "user" => s[i].content \in TextsOf(u)

\* no stored history and no inference request holds a turn of another user
NoForeignTurns ==
  /\ \A u \in Users : OwnTurns(Stored(u), u)
  /\ \A t \in Tasks : OwnTurns(task[t].request, task[t].userId)

\* this step is the handling of a /clear of user u
ClearStep(u) == confirmations'[u] # confirmations[u]

\* C6: under every interleaving of the handlers of two users, a step of a
\* text handler or a /clear of one user leaves the other user's stored
\* history as it was, and no history or request holds another user's turn.
C6_OtherUserUntouched ==
  [][/\ \A t \in Tasks :
         task'[t] # task[t]
           => \A v \in Users \ {task'[t].userId} : Stored(v)' = Stored(v)
     /\ \A u \in Users :
         ClearStep(u) => \A v \in Users \ {u} : Stored(v)' = Stored(v)
     /\ NoForeignTurns']_vars

\* the messages of u1 and u2 were handled at the same time, both with
\* success, and each user's history holds its own exchange
C6_Witness ==
  /\ task[1].pc = "done" /\ task[1].userId = "u1" /\ task[1].got = "ok"
  /\ task[2].pc = "done" /\ task[2].userId = "u2" /\ task[2].got = "ok"
  /\ Stored("u1") = <<Turn("user", UserText("u1", 1)), Turn("assistant", HiThere)>>
  /\ Stored("u2") = <<Turn("user", UserText("u2", 2)), Turn("assistant", HiThere)>>

\* the number of turns of s with role r
CountRole(s, r) == Cardinality({i \in 1..Len(s) : s[i].role = r})

\* C7: when two text messages of one user were handled at the same time and
\* both inference calls succeeded, the stored history afterwards holds the
\* user turn and the assistant turn of both exchanges.
C7_BothExchangesKept ==
  (/\ nUpdates = 2 /\ confirmations["u1"] = 0
   /\ \A t \in Tasks : task[t].pc = "done" /\ task[t].got = "ok")
    => /\ \A t \in Tasks :
            \E i \in 1..Len(Stored("u1")) :
              Stored("u1")[i] = Turn("user", UserText("u1", t))
       /\ CountRole(Stored("u1"), "assistant") = 2

\* C8: handling a /clear removes that user's stored history, sends exactly
\* one confirmation, and starts no text handler: no inference request is
\* issued and no typing interval is set.
C8_ClearBypassesPipeline ==
  [][\A u \in Users :
       ClearStep(u) =>
         /\ userContexts'[u] = NoArr /\ Stored(u)' = <<>>
         /\ confirmations'[u] = confirmations[u] + 1
         /\ \A v \in Users \ {u} : confirmations'[v] = confirmations[v]
         /\ task' = task]_vars

\* a user's message was answered and stored, then the user's /clear removed
\* the history
C8_Witness ==
  \E u \in Users :
    /\ nUpdates = 2 /\ confirmations[u] = 1 /\ userContexts[u] = NoArr
    /\ task[1].pc = "done" /\ task[1].got = "ok" /\ task[1].userId = u

\* C9: a /clear leaves the user's history empty, also when it follows
\* another /clear; clearing a user that has no history changes nothing in
\* the store.
C9_ClearIdempotent ==
  [][\A u \in Users :
       ClearStep(u) =>
         /\ Stored(u)' = <<>>
         /\ Stored(u) = <<>> => (userContexts' = userContexts /\ heap' = heap)]_vars

\* two /clear commands of one user in a row
C9_Witness ==
  \E u \in Users : nUpdates = 2 /\ confirmations[u] = 2 /\ Stored(u) = <<>>

\* C10: when the inference call of a text message succeeds with a reply of
\* at most 4000 units, the stored history then ends with the user turn of
\* the message followed directly by the assistant turn of the reply, and the
\* handler finishes having sent exactly one message, the reply.
C10_ExchangeStoredAndSent ==
  [][\A t \in Tasks :
       /\ (/\ task[t].pc = "json" /\ task'[t].pc = "reply"
           /\ Length(task'[t].response) <= ChunkLimit)
            => LET h == Stored(task[t].userId)'
                   n == Len(h)
               IN /\ n >= 2
                  /\ h[n - 1] = Turn("user", task[t].userMessage)
                  /\ h[n] = Turn("assistant", task'[t].response)
       /\ (/\ task[t].pc = "reply" /\ task'[t].pc = "done"
           /\ Length(task[t].response) <= ChunkLimit)
            => task'[t].out = <<[msg |-> TextMsg(task[t].response), ok |-> TRUE]>>]_vars

\* handler t sent a reply message that was not delivered
ReplyFailed(t) ==
  \E i \in 1..Len(task[t].out) :
    task[t].out[i].msg.kind = "text" /\ ~task[t].out[i].ok

\* C11: every inbound text message causes at most one inference request,
\* exactly one once its call has completed or failed, and after a reply
\* message that was not delivered no reply message is sent again.
C11_OneRequestNoResend ==
  \A t \in Tasks :
    /\ task[t].requests <= 1
    /\ task[t].got # "none" => task[t].requests = 1
    /\ \A i \in 1..Len(task[t].out) :
         (task[t].out[i].msg.kind = "text" /\ ~task[t].out[i].ok)
           => /\ task[t].inflight.kind # "text"
              /\ \A j \in (i + 1)..Len(task[t].out) :
                   task[t].out[j].msg.kind # "text"

\* a message whose second reply chunk was not delivered has been handled to
\* its end
C11_Witness ==
  \E t \in Tasks :
    /\ task[t].pc = "done" /\ ReplyFailed(t) /\ task[t].requests = 1
    /\ Len(task[t].out) = 3 /\ task[t].out[1].ok


\* the inference call of handler t failed, or one of its reply sends did
Failed(t) == task[t].got = "failed" \/ ReplyFailed(t)

\* handler t sent its apology and the send was not delivered
ApologyFailed(t) ==
  \E i \in 1..Len(task[t].out) :
    task[t].out[i].msg.kind = "apology" /\ ~task[t].out[i].ok

\* C12 as stated: every message whose inference call or reply delivery
\* failed gets one apology send in all, the generic one counted
C12_SingleApologySend ==
  \A t \in Tasks :
    Failed(t) =>
      Len(Attempts(t, "apology")) + Len(Attempts(t, "generic")) = 1

\* C12: every failure of the inference call or of a reply send results in
\* exactly one send of the apology that explains the error, a message that
\* did not fail gets none, and the generic apology of the top-level handler
\* is sent once more exactly when that apology send itself failed.
C12_OneApologyThenGeneric ==
  \A t \in Tasks :
    /\ Len(Attempts(t, "apology")) = (IF Failed(t) THEN 1 ELSE 0)
    /\ Failed(t) =>
         Len(Attempts(t, "generic")) = (IF ApologyFailed(t) THEN 1 ELSE 0)

\* the inference call failed, the apology send failed too, and the generic
\* apology was sent
C12_Witness ==
  \E t \in Tasks :
    /\ task[t].pc = "done" /\ task[t].got = "failed" /\ ApologyFailed(t)
    /\ Len(task[t].out) = 2 /\ task[t].out[2].msg = GenericMsg


\* C13: no failure of a typing-signal send, the first one included, keeps
\* a message from its inference call and from its reply or apology: every
\* handler that has ended made its request and sent a reply or an apology.
C13_TypingFailureSwallowed ==
  \A t \in Tasks :
    Finished(t) =>
      /\ task[t].requests = 1
      /\ Attempts(t, "text") # <<>> \/ Attempts(t, "apology") # <<>>


\* C14: the typing interval is cleared before any reply is sent: whenever
\* a handler is sending or has sent a reply chunk or its apology, the
\* interval it set has been cleared and is inactive.
C14_DisarmedBeforeReply ==
  \A t \in Tasks :
    (Attempts(t, "text") # <<>> \/ Attempts(t, "apology") # <<>>)
      => (~task[t].interval /\ task[t].disarmed = 1)


\* C15: the reply chunks are sent in their order, one at a time: what the
\* handler has sent or is sending is a prefix of the reply's chunks, a
\* chunk is sent only when all before it were delivered, and when the send
\* of chunk k fails the chunks before k stay delivered, no chunk after k
\* is sent, and the apology reporting the send error is sent next.
C15_ChunksInOrderStopAtFailure ==
  \A t \in Tasks :
    LET out == task[t].out
        sent == Texts(Attempts(t, "text"))
        chunks == SplitResponse(task[t].response)
    IN /\ sent # <<>> =>
            /\ task[t].got = "ok"
            /\ Len(sent) <= Len(chunks)
            /\ \A i \in 1..Len(sent) : sent[i] = chunks[i]
       /\ \A i \in 1..Len(sent) :
            IF i <= Len(out)
            THEN /\ out[i].msg.kind = "text"
                 /\ i < Len(sent) => out[i].ok
                 /\ ~out[i].ok =>
                      /\ i = Len(sent)
                      /\ Attempts(t, "apology") = <<ApologyMsg(ErrorMsg(SendErr))>>
                      /\ Len(out) > i => out[i + 1].msg.kind = "apology"
            ELSE i = Len(sent) /\ task[t].inflight.kind = "text"

\* a reply of three chunks whose second chunk was not delivered: the first
\* stays delivered, the third is never sent, the apology is
C15_Witness ==
  \E t \in Tasks :
    /\ task[t].pc = "done" /\ Len(SplitResponse(task[t].response)) = 3
    /\ Len(task[t].out) = 3
    /\ task[t].out[1].ok /\ ~task[t].out[2].ok
    /\ task[t].out[2].msg.kind = "text" /\ task[t].out[3].msg.kind = "apology"


\* C16: when the apology send itself fails, the typing interval has been
\* cleared, the top-level handler sends the generic apology exactly once,
\* and whether or not that send is delivered the handling ends there with
\* nothing sent after it.
C16_ApologyFailureContained ==
  \A t \in Tasks :
    ApologyFailed(t) =>
      LET out == task[t].out
          k == CHOOSE i \in 1..Len(out) : out[i].msg.kind = "apology"
      IN /\ Finished(t)
         /\ ~task[t].interval /\ task[t].disarmed = 1
         /\ Attempts(t, "generic") = <<GenericMsg>>
         /\ IF task[t].pc = "caught"
            THEN Len(out) = k /\ task[t].inflight = GenericMsg
            ELSE /\ Len(out) = k + 1 /\ out[k + 1].msg = GenericMsg
                 /\ task[t].inflight = NoMsg

\* the apology send failed and so did the generic apology's; the handling
\* has ended
C16_Witness ==
  \E t \in Tasks :
    /\ task[t].pc = "done" /\ ApologyFailed(t)
    /\ ~task[t].out[Len(task[t].out)].ok
    /\ task[t].out[Len(task[t].out)].msg = GenericMsg


\* C17: under weak fairness of the handlers' steps, every text message that
\* was received is eventually handled to its end, with its typing interval
\* inactive.
C17_EveryMessageDone ==
  \A t \in Tasks :
    (task[t].pc = "typing") ~> (task[t].pc = "done" /\ ~task[t].interval)

\* two overlapping messages have both been handled to their end, one after
\* a failed inference call and a failed apology send
C17_Witness ==
  /\ \A t \in Tasks : task[t].pc = "done" /\ ~task[t].interval
  /\ \E t \in Tasks : task[t].got = "failed" /\ ApologyFailed(t)
  /\ \E t \in Tasks : task[t].got = "ok"


\* C18: the request a handler sends to the endpoint holds at most
\* MaxContext (10) turns, ends with the user turn of the message being
\* handled, and before it holds the latest turns of the user's stored
\* history in their stored order, as many as fit, however long that
\* history was.
C18_RequestIsRecentTurns ==
  [][\A t \in Tasks :
       (task[t].pc = "typing" /\ task'[t].pc = "fetch") =>
         LET hist == Stored(task[t].userId)
             req == task'[t].request
             n == Len(req)
         IN /\ n >= 1 /\ n <= MaxContext
            /\ req[n] = Turn("user", task[t].userMessage)
            /\ n - 1 <= Len(hist)
            /\ n < MaxContext => n - 1 = Len(hist)
            /\ \A i \in 1..(n - 1) : req[i] = hist[Len(hist) - (n - 1) + i]]_vars

\* a request of 10 turns made for a user whose stored history held 11
C18_Witness ==
  \E t \in Tasks :
    /\ task[t].pc = "fetch" /\ Len(task[t].request) = MaxContext
    /\ Len(Stored(task[t].userId)) = MaxContext + 2


\* C19: a /clear handled while an inference call of the same user is
\* outstanding is not undone: once no handler is running, the history of a
\* user who sent /clear holds no assistant turn from before the last
\* /clear, so no more assistant turns than were pushed since.
C19_ClearNotUndone ==
  \A u \in Users :
    (Quiet /\ confirmations[u] >= 1)
      => CountRole(Stored(u), "assistant") <= CountRole(appended[u], "assistant")


\* C20: when the inference call of a message fails, the user's stored
\* history is what it was when the message arrived, for a user with a
\* history and for one with none: the user turn of the failed message is
\* not left in it.
C20_FailedCallLeavesHistory ==
  \A t \in Tasks :
    (task[t].pc = "apology" /\ task[t].got = "failed")
      => Stored(task[t].userId) = task[t].base

=============================================================================
